---- MODULE Spec2Model ----
(***************************************************************************)
(* Bayesian change point analysis: the BayesianChangePoint class of        *)
(* src/src/bayesian_change_point.py as a state machine.                    *)
(*                                                                         *)
(* Numbers.  The program computes in IEEE doubles.  A finite double is     *)
(* modelled as a fixed-point integer counting hundredths (SCALE units per  *)
(* 1.0); the three non-finite doubles keep their own kinds, so a value is  *)
(* a record [k |-> "fin" | "ninf" | "pinf" | "nan", v |-> Int] and the     *)
(* arithmetic below follows IEEE 754 on the kinds (-inf - -inf = nan, any  *)
(* comparison with nan is false, x/0 is +-inf, 0/0 is nan).  Natural       *)
(* logarithms are computed by the binary-logarithm digit recurrence, to    *)
(* the fixed-point resolution.                                             *)
(***************************************************************************)
EXTENDS Integers, Sequences, FiniteSets, TLC

\* ------------------------------------------------------------- bounds
\* Series lengths explored by the lifecycle specification: MinLen..MaxLen.
MinLen == 20
MaxLen == 23
\* Sampler iterations explored on one instance, over all its calls, with the
\* full draw set (n_samples + burn_in of a call is at most what is left).
MaxIter == 2
\* The same for an instance that is also put through the grid estimator.
MixIter == 2
\* The same with the coarse draw set: long enough for the R-hat of a run to
\* leave its sentinel branch (2 * n_chains samples).
LongIter == 8
\* Largest burn_in of a call.
MaxBurnIn == 1
\* Method calls explored on one instance.
MaxCalls == 2
\* The series length of the log-posterior probes: the shortest series with a
\* valid change point above 0.8 n.
LongLen == 56
\* The R-hat probes: up to MaxChains sub-chains, up to MaxRHatLen samples.
MaxChains == 4
MaxRHatLen == 8
\* Largest grid resolution n_grid_points.
MaxGrid == 3

\* ------------------------------------------------- fixed-point numbers
\* Units per 1.0.
SCALE == 10 * 10

Fin(x) == [k |-> "fin", v |-> x]
NInf == [k |-> "ninf", v |-> 0]
PInf == [k |-> "pinf", v |-> 0]
NaN == [k |-> "nan", v |-> 0]

IsFin(a) == a.k = "fin"

\* The element of a one-element set.  {F(x) : x \in {e}} evaluates e once,
\* however often F uses x.
The(S) == CHOOSE x \in S : TRUE

Abs(x) == IF x < 0 THEN -x ELSE x
Min(a, b) == IF a < b THEN a ELSE b
Max(a, b) == IF a > b THEN a ELSE b

\* IEEE addition on the kinds.
XAdd(a, b) ==
  IF a.k = "nan" \/ b.k = "nan" THEN NaN
  ELSE IF a.k = "fin" /\ b.k = "fin" THEN Fin(a.v + b.v)
  ELSE IF a.k = "fin" THEN b
  ELSE IF b.k = "fin" THEN a
  ELSE IF a.k = b.k THEN a
  ELSE NaN

XNeg(a) ==
  IF a.k = "ninf" THEN PInf
  ELSE IF a.k = "pinf" THEN NInf
  ELSE IF a.k = "fin" THEN Fin(-a.v)
  ELSE NaN

XSub(a, b) == XAdd(a, XNeg(b))

\* IEEE a < b: false as soon as one side is nan.
XLess(a, b) ==
  IF a.k = "nan" \/ b.k = "nan" THEN FALSE
  ELSE IF a.k = "ninf" THEN b.k # "ninf"
  ELSE IF a.k = "pinf" THEN FALSE
  ELSE IF b.k = "ninf" THEN FALSE
  ELSE IF b.k = "pinf" THEN TRUE
  ELSE a.v < b.v

\* IEEE a / b of two finite doubles given as fixed-point integers.
XDiv(a, b) ==
  IF b = 0 THEN (IF a = 0 THEN NaN ELSE IF a > 0 THEN PInf ELSE NInf)
  ELSE Fin((a * SCALE) \div b)

\* Integer square root (floor).
RECURSIVE SqrtIter(_, _, _)
SqrtIter(x, lo, hi) ==
  IF lo >= hi THEN lo
  ELSE LET mid == (lo + hi + 1) \div 2
       IN IF mid * mid <= x THEN SqrtIter(x, mid, hi) ELSE SqrtIter(x, lo, mid - 1)

ISqrt(x) == SqrtIter(x, 0, Min(x, 46340))

\* Binary logarithm of a positive integer, in 1/1024ths: the exponent, then
\* ten fraction digits by repeated squaring of the mantissa (12 fraction bits).
RECURSIVE Log2Exp(_)
Log2Exp(x) == IF x < 2 THEN 0 ELSE 1 + Log2Exp(x \div 2)

RECURSIVE Pow2(_)
Pow2(e) == IF e = 0 THEN 1 ELSE 2 * Pow2(e - 1)

RECURSIVE Log2Frac(_, _, _)
Log2Frac(m, bit, acc) ==
  IF bit = 0 THEN acc
  ELSE LET sq == (m * m) \div 4096
       IN IF sq >= 8192 THEN Log2Frac(sq \div 2, bit \div 2, acc + bit)
          ELSE Log2Frac(sq, bit \div 2, acc)

Log2Units(x) ==
  LET e == Log2Exp(x)
      m == IF e > 12 THEN x \div Pow2(e - 12) ELSE x * Pow2(12 - e)
  IN e * 1024 + Log2Frac(m, 512, 0)

\* SCALE * ln(x) for a positive integer x.
LnInt(x) == (((Log2Units(x) * 6931) \div 1024) * SCALE) \div 10000

\* SCALE * ln(x / SCALE): the logarithm of a positive fixed-point number.
LnFix(x) == LnInt(x) - LnInt(SCALE)

\* SCALE * ln(sqrt(2*pi)) and SCALE * ln(2/pi).
LnSqrt2Pi == (LnInt(6283) - LnInt(1000)) \div 2
Ln2OverPi == LnInt(2000) - LnInt(3142)

RECURSIVE SumSeq(_)
SumSeq(s) == IF s = <<>> THEN 0 ELSE Head(s) + SumSeq(Tail(s))

RECURSIVE SumSq(_, _)
\* Sum of (x - c)^2 over the values of s.
SumSq(s, c) == IF s = <<>> THEN 0 ELSE (Head(s) - c) * (Head(s) - c) + SumSq(Tail(s), c)

\* np.mean of a sequence of finite doubles: nan for the empty sequence.
NpMean(s) == IF s = <<>> THEN NaN ELSE Fin(SumSeq(s) \div Len(s))

\* np.std of a non-empty sequence (population standard deviation):
\* sqrt(n*sum(x^2) - sum(x)^2) / n, which is 0 exactly for a constant sequence.
NpStd(s) ==
  IF s = <<>> THEN NaN
  ELSE Fin(ISqrt(Len(s) * SumSq(s, 0) - SumSeq(s) * SumSeq(s)) \div Len(s))

\* ------------------------------------------------------------ the object
VARIABLES
  self,     \* the BayesianChangePoint instance: its input and result fields
  pc,       \* "idle", or "mcmc" while calculate_posterior_mcmc is in its loop
  loc,      \* the local variables of the running calculate_posterior_mcmc
  ref,      \* the same run replayed on the instance as it was constructed
  out,      \* what the latest finished call returned, printed or raised
  calls,    \* method calls made on the instance so far
  budget,   \* sampler iterations still to be explored on this instance
  coarse,   \* whether the random draws come from the coarse draw set
  probe,    \* arguments and results of the pure functions under test
  threads   \* the calls that run concurrently on the instance, each with its position

vars == <<self, pc, loc, ref, out, calls, budget, coarse, probe, threads>>

\* An unset result field (None in the program) and a set one.
None == [set |-> FALSE, val |-> <<>>]
Some(x) == [set |-> TRUE, val |-> x]

\* The series the instance is constructed on, in fixed-point units: a constant
\* series, a noiseless step (0 then 4) at the middle, and an alternating one.
Series(len, kind) ==
  [i \in 1..len |->
     IF kind = "const" THEN 3 * SCALE
     ELSE IF kind = "step" THEN (IF i <= len \div 2 THEN 0 ELSE 4 * SCALE)
     ELSE (IF i % 2 = 1 THEN SCALE ELSE 3 * SCALE)]

Kinds == {"const", "step", "alt"}

\* __init__: the fields of a new instance.  No check of len(data) or of the
\* standard deviation is made and nothing is raised.
Construct(d) ==
  [data |-> d,
   n |-> Len(d),
   tau_prior_range |-> <<(Len(d) * SCALE) \div 5, (Len(d) * 4 * SCALE) \div 5>>,
   mu_prior_mean |-> NpMean(d).v,
   mu_prior_std |-> NpStd(d).v * 2,
   sigma_prior_scale |-> NpStd(d).v,
   posterior_tau |-> None,
   posterior_mu1 |-> None,
   posterior_mu2 |-> None,
   posterior_sigma |-> None,
   map_estimate |-> None]

\* int(tau) of a non-negative double.
IntOf(tau) == tau \div SCALE

\* data[:k] and data[k:] (k >= 0).
Before(d, k) == SubSeq(d, 1, Min(k, Len(d)))
After(d, k) == SubSeq(d, Min(k, Len(d)) + 1, Len(d))

\* np.log(uniform.pdf(x, loc, scale)): the density is 1/scale on
\* [loc, loc + scale] and 0 elsewhere.
LogUniformPdf(x, lo, scale) ==
  IF scale <= 0 THEN NaN
  ELSE IF x >= lo /\ x <= lo + scale THEN Fin(-LnFix(scale))
  ELSE NInf

\* np.log(norm.pdf(x, m, s)): nan for s <= 0, -inf once the density underflows.
LogNormPdf(x, m, s) ==
  IF s <= 0 THEN NaN
  ELSE LET d2 == (x - m) * (x - m)
           q == (d2 \div (2 * s * s)) * SCALE + ((d2 % (2 * s * s)) * SCALE) \div (2 * s * s)
           v == -q - LnFix(s) - LnSqrt2Pi
       IN IF -v > 744 * SCALE THEN NInf ELSE Fin(v)

\* np.log(stats.halfcauchy.pdf(x, 0, c)): density 2 / (pi c (1 + (x/c)^2)), x >= 0.
LogHalfCauchyPdf(x, c) ==
  IF c <= 0 THEN NaN
  ELSE IF x < 0 THEN NInf
  ELSE Fin(Ln2OverPi - LnFix(c) - (LnInt(c * c + x * x) - 2 * LnInt(c)))

\* np.sum(norm.logpdf(xs, mu, sigma)) for sigma > 0.
SumLogNormPdf(xs, mu, sigma) ==
  LET q == SumSq(xs, mu)
      den == 2 * sigma * sigma
  IN Fin(-((q \div den) * SCALE + ((q % den) * SCALE) \div den)
         - Len(xs) * (LnFix(sigma) + LnSqrt2Pi))

\* The four log prior terms, added in the program's order.
LogPriors(s, tau, mu1, mu2, sigma) ==
  XAdd(XAdd(XAdd(LogUniformPdf(tau, s.tau_prior_range[1], s.tau_prior_range[2]),
                 LogNormPdf(mu1, s.mu_prior_mean, s.mu_prior_std)),
            LogNormPdf(mu2, s.mu_prior_mean, s.mu_prior_std)),
       LogHalfCauchyPdf(sigma, s.sigma_prior_scale))

\* The two likelihood sums.
LogLikelihood(s, tau_int, mu1, mu2, sigma) ==
  LET before_data == Before(s.data, tau_int)
      after_data == After(s.data, tau_int)
      lb == IF Len(before_data) > 0 THEN SumLogNormPdf(before_data, mu1, sigma) ELSE Fin(0)
      la == IF Len(after_data) > 0 THEN SumLogNormPdf(after_data, mu2, sigma) ELSE Fin(0)
  IN XAdd(lb, la)

\* _log_posterior(tau, mu1, mu2, sigma).
\* _log_posterior with the range test written tau_int < 10, tau_int > n - 10.
LogPosteriorClosedRange(s, tau, mu1, mu2, sigma) ==
  LET tau_int == IntOf(tau)
  IN IF tau_int < 10 \/ tau_int > s.n - 10 \/ sigma <= 0 THEN NInf
     ELSE XAdd(LogPriors(s, tau, mu1, mu2, sigma),
               LogLikelihood(s, tau_int, mu1, mu2, sigma))

LogPosterior(s, tau, mu1, mu2, sigma) ==
  LET tau_int == IntOf(tau)
  IN IF tau_int <= 10 \/ tau_int >= s.n - 10 \/ sigma <= 0 THEN NInf
     ELSE XAdd(LogPriors(s, tau, mu1, mu2, sigma),
               LogLikelihood(s, tau_int, mu1, mu2, sigma))

\* ------------------------------------------------- calculate_posterior_grid
\* np.linspace(lo, hi, g), g >= 1, as a 0-based function.
Linspace(lo, hi, g) ==
  [i \in 0..(g - 1) |-> IF g = 1 THEN lo ELSE lo + (i * (hi - lo)) \div (g - 1)]

tau_grid(s, g) == Linspace(s.tau_prior_range[1], s.tau_prior_range[2], g)
mu_grid(s, g) ==
  Linspace(s.mu_prior_mean - 2 * s.mu_prior_std, s.mu_prior_mean + 2 * s.mu_prior_std, g)
sigma_grid(s, g) == Linspace(SCALE \div 10, s.sigma_prior_scale * 2, g)

\* The value the loop leaves in posterior[i, j, k, l] for the cell's parameters:
\* the array starts as np.zeros and a cell whose int(tau) is out of range is
\* skipped by `continue`, so it keeps 0.0.
GridCell(s, tau, mu1, mu2, sigma) ==
  LET tau_int == IntOf(tau)
  IN IF tau_int <= 10 \/ tau_int >= s.n - 10 THEN Fin(0)
     ELSE XAdd(LogPriors(s, tau, mu1, mu2, sigma),
               IF sigma > 0 THEN LogLikelihood(s, tau_int, mu1, mu2, sigma) ELSE Fin(0))

\* The posterior array, flattened in C order: index ((i*g + j)*g + k)*g + l.
AxisIndex(c, axis, g) ==
  IF axis = 0 THEN c \div (g * g * g)
  ELSE IF axis = 1 THEN (c \div (g * g)) % g
  ELSE IF axis = 2 THEN (c \div g) % g
  ELSE c % g

PosteriorArrayOn(s, g, taus, mus, sigmas) ==
  [c \in 0..(g * g * g * g - 1) |->
     GridCell(s, taus[AxisIndex(c, 0, g)], mus[AxisIndex(c, 1, g)],
              mus[AxisIndex(c, 2, g)], sigmas[AxisIndex(c, 3, g)])]

PosteriorArray(s, g) ==
  The({PosteriorArrayOn(s, g, taus, mus, sigmas) :
         taus \in {tau_grid(s, g)}, mus \in {mu_grid(s, g)}, sigmas \in {sigma_grid(s, g)}})

\* np.argmax of the flattened array over the indices lo..hi: the first nan if
\* there is one, else the first maximum (the range is halved to keep the
\* evaluation shallow).
RECURSIVE ArgMaxIn(_, _, _)
ArgMaxIn(arr, lo, hi) ==
  IF lo = hi THEN lo
  ELSE LET mid == (lo + hi) \div 2
           l == ArgMaxIn(arr, lo, mid)
           r == ArgMaxIn(arr, mid + 1, hi)
       IN IF arr[l].k = "nan" THEN l
          ELSE IF arr[r].k = "nan" \/ XLess(arr[l], arr[r]) THEN r
          ELSE l

ArgMax(arr, size) == ArgMaxIn(arr, 0, size - 1)

\* The flat index of the cell whose index along `axis` is i and whose other
\* three indices are the base-g digits of r (0 <= r < g^3), in axis order.
CellAt(axis, i, r, g) ==
  LET a == r \div (g * g)
      b == (r \div g) % g
      c == r % g
  IN IF axis = 0 THEN ((i * g + a) * g + b) * g + c
     ELSE IF axis = 1 THEN ((a * g + i) * g + b) * g + c
     ELSE IF axis = 2 THEN ((a * g + b) * g + i) * g + c
     ELSE ((a * g + b) * g + c) * g + i

\* posterior.sum(axis = the three other axes)[i]: the sum of the g^3 cells
\* whose index along `axis` is i, here those numbered lo..hi.
RECURSIVE AxisSumIn(_, _, _, _, _, _)
AxisSumIn(arr, axis, i, g, lo, hi) ==
  IF lo = hi THEN arr[CellAt(axis, i, lo, g)]
  ELSE XAdd(AxisSumIn(arr, axis, i, g, lo, (lo + hi) \div 2),
            AxisSumIn(arr, axis, i, g, (lo + hi) \div 2 + 1, hi))

AxisSum(arr, axis, i, g) == AxisSumIn(arr, axis, i, g, 0, g * g * g - 1)

\* How np.exp classifies a log weight: 0.0 below the underflow threshold
\* (-745.13), inf above the overflow threshold (709.78), else a positive double.
ExpClass(x) ==
  IF x.k = "nan" THEN "nan"
  ELSE IF x.k = "ninf" \/ (x.k = "fin" /\ x.v < -(74513 * SCALE) \div 100) THEN "zero"
  ELSE IF x.k = "pinf" \/ (x.k = "fin" /\ x.v > (70978 * SCALE) \div 100) THEN "inf"
  ELSE "pos"

\* np.exp(sums) followed by the in-place division by its own sum.  An entry is
\* [k, lw]: k = "nan", "zero" or "pos", and for "pos" the entry's value is
\* exp(lw) / (the sum of exp(lw') over the "pos" entries).
Normalised(sums, cls, total, g) ==
  [i \in 1..g |->
     IF total = "nan" \/ total = "zero" THEN [k |-> "nan", lw |-> 0]
     ELSE IF total = "inf"
       THEN (IF cls[i - 1] = "inf" THEN [k |-> "nan", lw |-> 0] ELSE [k |-> "zero", lw |-> 0])
     ELSE IF cls[i - 1] = "zero" THEN [k |-> "zero", lw |-> 0]
     ELSE [k |-> "pos", lw |-> sums[i - 1].v]]

SumClass(cls, g) ==
  IF \E i \in 0..(g - 1) : cls[i] = "nan" THEN "nan"
  ELSE IF \E i \in 0..(g - 1) : cls[i] = "inf" THEN "inf"
  ELSE IF \A i \in 0..(g - 1) : cls[i] = "zero" THEN "zero"
  ELSE "pos"

Classified(sums, g) ==
  The({Normalised(sums, cls, SumClass(cls, g), g) :
         cls \in {[i \in 0..(g - 1) |-> ExpClass(sums[i])]}})

Marginal(arr, axis, g) ==
  The({Classified(sums, g) : sums \in {[i \in 0..(g - 1) |-> AxisSum(arr, axis, i, g)]}})

\* The dict stored in map_estimate by the grid estimator, m the argmax.
GridMapAt(s, g, arr, m) ==
  [tau |-> Fin(tau_grid(s, g)[AxisIndex(m, 0, g)]),
   mu1 |-> Fin(mu_grid(s, g)[AxisIndex(m, 1, g)]),
   mu2 |-> Fin(mu_grid(s, g)[AxisIndex(m, 2, g)]),
   sigma |-> Fin(sigma_grid(s, g)[AxisIndex(m, 3, g)]),
   log_posterior |-> Some(arr[m])]

GridMapOf(s, g, arr) == GridMapAt(s, g, arr, ArgMax(arr, g * g * g * g))

GridMap(s, g) == The({GridMapOf(s, g, arr) : arr \in {PosteriorArray(s, g)}})

\* The instance after calculate_posterior_grid(n_grid_points = g), arr the
\* posterior array the loop has filled.
GridResultOf(s, g, arr) ==
  [s EXCEPT !.map_estimate = Some(GridMapOf(s, g, arr)),
            !.posterior_tau = Some(Marginal(arr, 0, g)),
            !.posterior_mu1 = Some(Marginal(arr, 1, g)),
            !.posterior_mu2 = Some(Marginal(arr, 2, g))]

GridResult(s, g) == The({GridResultOf(s, g, arr) : arr \in {PosteriorArray(s, g)}})

\* ------------------------------------------------- calculate_posterior_mcmc
\* The proposal step sizes (tau_step, and mu_step, sigma_step in fixed point)
\* and the number of sub-chains the run asks R-hat for.
tau_step == 5
mu_step == SCALE
sigma_step == SCALE \div 2
n_chains == 4

\* np.clip(x, lo, hi) = minimum(maximum(x, lo), hi).
Clip(x, lo, hi) == Min(Max(x, lo), hi)

\* A run that starts from the mu1 of a stored estimate, when there is one.
McmcStartWarm(s, ns, bi) ==
  LET current_tau == s.n \div 2
  IN [current_tau |-> current_tau,
      current_mu1 |-> IF s.map_estimate.set /\ IsFin(s.map_estimate.val.mu1)
                        THEN s.map_estimate.val.mu1.v
                        ELSE NpMean(Before(s.data, current_tau)).v,
      current_mu2 |-> NpMean(After(s.data, current_tau)).v,
      current_sigma |-> NpStd(s.data).v,
      tau_samples |-> <<>>, mu1_samples |-> <<>>,
      mu2_samples |-> <<>>, sigma_samples |-> <<>>,
      iteration |-> 0, n_samples |-> ns, burn_in |-> bi]

\* The locals of a run that has just entered the loop.
McmcStart(s, ns, bi) ==
  LET current_tau == s.n \div 2
  IN [current_tau |-> current_tau,
      current_mu1 |-> NpMean(Before(s.data, current_tau)).v,
      current_mu2 |-> NpMean(After(s.data, current_tau)).v,
      current_sigma |-> NpStd(s.data).v,
      tau_samples |-> <<>>, mu1_samples |-> <<>>,
      mu2_samples |-> <<>>, sigma_samples |-> <<>>,
      iteration |-> 0, n_samples |-> ns, burn_in |-> bi]

NoLoc ==
  [current_tau |-> 0, current_mu1 |-> 0, current_mu2 |-> 0, current_sigma |-> 0,
   tau_samples |-> <<>>, mu1_samples |-> <<>>, mu2_samples |-> <<>>,
   sigma_samples |-> <<>>, iteration |-> 0, n_samples |-> 0, burn_in |-> 0]

\* The proposal of one iteration from the iteration's random draws:
\* d.dtau = randint(-tau_step, tau_step + 1), d.z1, d.z2 = normal(0, mu_step),
\* d.zs = normal(0, sigma_step).
Propose(s, l, d) ==
  [tau |-> Clip(l.current_tau + d.dtau, 10, s.n - 10),
   mu1 |-> l.current_mu1 + d.z1,
   mu2 |-> l.current_mu2 + d.z2,
   sigma |-> Abs(l.current_sigma + d.zs)]

\* The accept test np.log(np.random.random()) < log_ratio, d.logu the log of
\* the uniform draw (-inf for a draw of 0.0).
Accepts(logu, log_ratio) == XLess(logu, log_ratio)

\* The log posterior of the current state, recomputed by every iteration.
CurrentLogPost(s, l) ==
  LogPosterior(s, l.current_tau * SCALE, l.current_mu1, l.current_mu2, l.current_sigma)

\* The log posterior of a proposal.
NewLogPost(s, p) == LogPosterior(s, p.tau * SCALE, p.mu1, p.mu2, p.sigma)

\* What one iteration decides: the proposal, the two log posteriors, accept.
Decide(p, current_log_post, new_log_post, logu) ==
  [set |-> TRUE, tau |-> p.tau, mu1 |-> p.mu1, mu2 |-> p.mu2, sigma |-> p.sigma,
   current_log_post |-> current_log_post, new_log_post |-> new_log_post,
   accepted |-> Accepts(logu, XSub(new_log_post, current_log_post))]

\* The current state after the accept/reject step.
Moved(l, dec) ==
  IF dec.accepted
    THEN [l EXCEPT !.current_tau = dec.tau, !.current_mu1 = dec.mu1,
                   !.current_mu2 = dec.mu2, !.current_sigma = dec.sigma]
    ELSE l

\* Recording that starts one iteration late (iteration > burn_in).
RecordedLate(l) ==
  IF l.iteration > l.burn_in
    THEN [l EXCEPT !.tau_samples = Append(@, l.current_tau),
                   !.mu1_samples = Append(@, l.current_mu1),
                   !.mu2_samples = Append(@, l.current_mu2),
                   !.sigma_samples = Append(@, l.current_sigma)]
    ELSE l

\* The sample lists after the iteration: the current state is appended once
\* burn_in iterations have passed.
Recorded(l) ==
  IF l.iteration >= l.burn_in
    THEN [l EXCEPT !.tau_samples = Append(@, l.current_tau),
                   !.mu1_samples = Append(@, l.current_mu1),
                   !.mu2_samples = Append(@, l.current_mu2),
                   !.sigma_samples = Append(@, l.current_sigma)]
    ELSE l

\* A loop body that records before its accept/reject step.
McmcBodyRecordFirst(l, dec) == [Moved(Recorded(l), dec) EXCEPT !.iteration = l.iteration + 1]

\* One pass through the loop body, given its decision.
McmcBody(l, dec) == [Recorded(Moved(l, dec)) EXCEPT !.iteration = l.iteration + 1]

\* _calculate_r_hat(samples, m), m >= 1.  The result is [sentinel, k, num, den]:
\* sentinel says the early return was taken; otherwise the value returned is
\* sqrt(total_var / within_var) with total_var / within_var = num / den exactly
\* (both scaled by m^2 L^3), nan for 0/0 and +inf for x/0.
\* Sub-chains cut from the end of the samples: samples[-m*L:] for samples[:m*L].
ChainOfTail(samples, c, L) ==
  SubSeq(samples, Len(samples) - (c + 1) * L + 1, Len(samples) - c * L)

ChainOf(samples, c, L) == SubSeq(samples, c * L + 1, (c + 1) * L)

RECURSIVE SumOver(_, _, _)
\* The sum of f[c] for c in lo..hi.
SumOver(f, lo, hi) == IF lo > hi THEN 0 ELSE f[lo] + SumOver(f, lo + 1, hi)

\* The value computed from the m sub-chains of length Len(samples) \div m.
RHatValue(samples, m) ==
  LET chain_length == Len(samples) \div m
      S == [c \in 0..(m - 1) |-> SumSeq(ChainOf(samples, c, chain_length))]
      Q == [c \in 0..(m - 1) |-> SumSq(ChainOf(samples, c, chain_length), 0)]
      \* within_var * m^2 L^2 and between_var * m^2 L^2
      within == m * SumOver([c \in 0..(m - 1) |-> chain_length * Q[c] - S[c] * S[c]], 0, m - 1)
      between == chain_length
                   * (m * SumOver([c \in 0..(m - 1) |-> S[c] * S[c]], 0, m - 1)
                      - SumOver(S, 0, m - 1) * SumOver(S, 0, m - 1))
      num == (chain_length - 1) * within + between
      den == chain_length * within
  IN [sentinel |-> FALSE,
      k |-> IF den # 0 THEN "fin" ELSE IF num = 0 THEN "nan" ELSE "pinf",
      num |-> num, den |-> den]

\* The literal 1.0 of the early return.
RHatSentinel == [sentinel |-> TRUE, k |-> "fin", num |-> 1, den |-> 1]

\* _calculate_r_hat with the length test written <=.
CalculateRHatInclusive(samples, m) ==
  IF Len(samples) <= m * 2 THEN RHatSentinel ELSE RHatValue(samples, m)

CalculateRHat(samples, m) ==
  IF Len(samples) < m * 2 THEN RHatSentinel ELSE RHatValue(samples, m)

ScaleAll(xs) == [i \in 1..Len(xs) |-> xs[i] * SCALE]

\* The dict stored in map_estimate by the sampler: the chain means.
McmcMap(l) ==
  [tau |-> NpMean(ScaleAll(l.tau_samples)),
   mu1 |-> NpMean(l.mu1_samples),
   mu2 |-> NpMean(l.mu2_samples),
   sigma |-> NpMean(l.sigma_samples),
   log_posterior |-> None]

\* The instance after the loop: the four chains and the point estimate.
McmcResult(s, l) ==
  [s EXCEPT !.posterior_tau = Some(l.tau_samples),
            !.posterior_mu1 = Some(l.mu1_samples),
            !.posterior_mu2 = Some(l.mu2_samples),
            !.posterior_sigma = Some(l.sigma_samples),
            !.map_estimate = Some(McmcMap(l))]

\* The instance as __init__ left it: the input fields of s, no results.
Fresh(s) == Construct(s.data)

\* ------------------------------------------------------------ plot_results
\* a / b and a * c on doubles that are finite or nan (the estimates and the
\* standard deviations are never infinite).
XQuot(a, b) == IF IsFin(a) /\ IsFin(b) THEN XDiv(a.v, b.v) ELSE NaN
XTimes(a, c) == IF IsFin(a) THEN Fin(a.v * c) ELSE a

\* The numbers of the summary text and of the printed results (the drawing
\* calls in between are the plotting library's and are not modelled).  Every
\* operand is a numpy double, so a zero denominator yields inf or nan and
\* nothing is raised.
Summary(s) ==
  LET m == s.map_estimate.val
      tau_idx == IntOf(m.tau.v)
      before_data == Before(s.data, tau_idx)
      after_data == After(s.data, tau_idx)
      shift == XSub(m.mu2, m.mu1)
  IN [set |-> TRUE,
      price_change |-> IF IsFin(shift) THEN Fin(Abs(shift.v)) ELSE shift,
      percent_change |-> XTimes(XQuot(shift, Fin(Abs(m.mu1.v))), 100),
      before_std |-> NpStd(before_data),
      after_std |-> NpStd(after_data),
      volatility_change |->
        XTimes(XQuot(XSub(NpStd(after_data), NpStd(before_data)), NpStd(before_data)), 100)]

NoSummary ==
  [set |-> FALSE, price_change |-> NaN, percent_change |-> NaN, before_std |-> NaN,
   after_std |-> NaN, volatility_change |-> NaN]

NoRHat == [sentinel |-> TRUE, k |-> "fin", num |-> 0, den |-> 0]

\* What a finished call returned (ret), printed (r_hat, summary) or raised.
Out(call, raised, ret, rt, rm1, rm2, summary) ==
  [call |-> call, raised |-> raised, ret |-> ret,
   r_hat_tau |-> rt, r_hat_mu1 |-> rm1, r_hat_mu2 |-> rm2, summary |-> summary]

NoOut == Out("none", "none", None, NoRHat, NoRHat, NoRHat, NoSummary)

\* plot_results(): returns at once when no analysis has run; int() of a nan
\* estimate raises ValueError before anything is derived.
PlotOut(s) ==
  IF ~s.map_estimate.set THEN Out("plot", "none", None, NoRHat, NoRHat, NoRHat, NoSummary)
  ELSE IF ~IsFin(s.map_estimate.val.tau)
    THEN Out("plot", "ValueError", None, NoRHat, NoRHat, NoRHat, NoSummary)
  ELSE Out("plot", "none", None, NoRHat, NoRHat, NoRHat, Summary(s))

\* ------------------------------------------------------------------ draws
\* The random draws of one iteration.  Full draw set: randint covers its whole
\* range; the normal draws are no noise, one step each way, and the draw that
\* reflects sigma onto 0.  Coarse draw set (the long runs): a proposal equal
\* to the current state, and one step of every parameter.  The uniform draw is
\* 0.0 (log = -inf) or just below 1.
Draw(dtau, z) == [dtau |-> dtau, z1 |-> z[1], z2 |-> z[2], zs |-> z[3]]

MoveDraws(l) ==
  IF coarse
    THEN {Draw(0, <<0, 0, 0>>), Draw(1, <<mu_step, -mu_step, sigma_step>>)}
    ELSE {Draw(dtau, z) :
            dtau \in (-tau_step)..tau_step,
            z \in {<<0, 0, 0>>, <<mu_step, -mu_step, sigma_step>>,
                   <<-mu_step, mu_step, -l.current_sigma>>}}

LogUDraws == {NInf, Fin(-1)}

\* ----------------------------------------------------------------- actions
NoProbe == [fn |-> "none", done |-> FALSE]
NoThreads == <<>>

\* The instance right after BayesianChangePoint(data).
InitWith(iters, isCoarse, callsMade) ==
  /\ self \in {Construct(Series(len, kind)) : len \in MinLen..MaxLen, kind \in Kinds}
  /\ pc = "idle"
  /\ loc = NoLoc
  /\ ref = NoLoc
  /\ out = NoOut
  /\ calls = callsMade
  /\ budget = iters
  /\ coarse = isCoarse
  /\ probe = NoProbe
  /\ threads = NoThreads

Init == InitWith(MixIter, TRUE, 0)

InitSampler == InitWith(MaxIter, FALSE, 0)

\* One call is left to the instance of a long run.
InitLong == InitWith(LongIter, TRUE, MaxCalls - 1)

\* calculate_posterior_grid(n_grid_points = g), the whole call.
GridCall ==
  /\ pc = "idle"
  /\ calls < MaxCalls
  /\ \E g \in 1..MaxGrid :
     \E res \in {GridResult(self, g)} :
       /\ self' = res
       /\ out' = Out("grid", "none", res.map_estimate, NoRHat, NoRHat, NoRHat, NoSummary)
  /\ calls' = calls + 1
  /\ UNCHANGED <<pc, loc, ref, budget, coarse, probe, threads>>

\* calculate_posterior_mcmc(n_samples = ns, burn_in = bi) up to the loop.
McmcCall ==
  /\ pc = "idle"
  /\ calls < MaxCalls
  /\ \E ns \in 0..budget : \E bi \in 0..Min(budget - ns, MaxBurnIn) :
       /\ loc' = McmcStart(self, ns, bi)
       /\ ref' = McmcStart(Fresh(self), ns, bi)
       /\ budget' = budget - (ns + bi)
  /\ pc' = "mcmc"
  /\ calls' = calls + 1
  /\ UNCHANGED <<self, out, coarse, probe, threads>>

\* One iteration of the loop.
McmcIterate ==
  /\ pc = "mcmc"
  /\ loc.iteration < loc.n_samples + loc.burn_in
  /\ \E fresh \in {Fresh(self)} :
     \E clp \in {CurrentLogPost(self, loc)}, rclp \in {CurrentLogPost(fresh, ref)} :
     \E pp \in {<<Propose(self, loc, d), Propose(fresh, ref, d)>> : d \in MoveDraws(loc)} :
     \E nlp \in {NewLogPost(self, pp[1])}, rnlp \in {NewLogPost(fresh, pp[2])} :
     \E logu \in LogUDraws :
       /\ loc' = McmcBody(loc, Decide(pp[1], clp, nlp, logu))
       /\ ref' = McmcBody(ref, Decide(pp[2], rclp, rnlp, logu))
  /\ UNCHANGED <<self, pc, out, calls, budget, coarse, probe, threads>>

\* The loop has ended: the results are stored, R-hat is printed, the estimate
\* is returned and the locals are gone.
McmcFinish ==
  /\ pc = "mcmc"
  /\ loc.iteration >= loc.n_samples + loc.burn_in
  /\ self' = McmcResult(self, loc)
  /\ out' = Out("mcmc", "none", Some(McmcMap(loc)),
                CalculateRHat(loc.tau_samples, n_chains),
                CalculateRHat(loc.mu1_samples, n_chains),
                CalculateRHat(loc.mu2_samples, n_chains), NoSummary)
  /\ pc' = "idle"
  /\ loc' = NoLoc
  /\ ref' = NoLoc
  /\ UNCHANGED <<calls, budget, coarse, probe, threads>>

\* plot_results(), the whole call.
PlotResults ==
  /\ pc = "idle"
  /\ calls < MaxCalls
  /\ out' = PlotOut(self)
  /\ calls' = calls + 1
  /\ UNCHANGED <<self, pc, loc, ref, budget, coarse, probe, threads>>

\* ------------------------------------------------ the pure functions, probed
\* _log_posterior and the grid loop's cell formula, applied to one argument
\* tuple: a cell of a grid, or an integer tau with parameters around the data.
GridPoints(s) ==
  {[cell |-> TRUE, tau |-> tau_grid(s, g)[i], mu1 |-> mu_grid(s, g)[j],
    mu2 |-> mu_grid(s, g)[k], sigma |-> sigma_grid(s, g)[l]] :
     <<g, i, j, k, l>> \in {q \in (1..MaxGrid) \X (0..(MaxGrid - 1)) \X (0..(MaxGrid - 1))
                                   \X (0..(MaxGrid - 1)) \X (0..(MaxGrid - 1)) :
                              q[2] < q[1] /\ q[3] < q[1] /\ q[4] < q[1] /\ q[5] < q[1]}}

FreePoints(s) ==
  {[cell |-> FALSE, tau |-> t * SCALE, mu1 |-> m, mu2 |-> 3 * SCALE, sigma |-> sg] :
     t \in 0..s.n, m \in {0, SCALE}, sg \in {0, SCALE \div 2, 2 * SCALE}}

InitLogPost ==
  /\ self \in {Construct(Series(len, kind)) : len \in {MaxLen, LongLen}, kind \in Kinds}
  /\ pc = "idle"
  /\ loc = NoLoc
  /\ ref = NoLoc
  /\ out = NoOut
  /\ calls = 0
  /\ budget = 0
  /\ coarse = TRUE
  /\ threads = NoThreads
  /\ probe \in {[fn |-> "log_posterior", done |-> FALSE, arg |-> a,
                 log_post |-> NaN, cell_value |-> NaN] : a \in GridPoints(self) \cup FreePoints(self)}

EvalLogPosterior ==
  /\ probe.fn = "log_posterior"
  /\ ~probe.done
  /\ probe' = [probe EXCEPT
       !.done = TRUE,
       !.log_post = LogPosterior(self, probe.arg.tau, probe.arg.mu1, probe.arg.mu2, probe.arg.sigma),
       !.cell_value = GridCell(self, probe.arg.tau, probe.arg.mu1, probe.arg.mu2, probe.arg.sigma)]
  /\ UNCHANGED <<self, pc, loc, ref, out, calls, budget, coarse, threads>>

\* _calculate_r_hat applied to a chain of samples and a number of sub-chains.
RECURSIVE SeqsUpTo(_, _)
\* The sequences over V of length at most k.
SeqsUpTo(V, k) ==
  IF k = 0 THEN {<<>>}
  ELSE SeqsUpTo(V, k - 1) \cup {Append(q, v) : q \in SeqsUpTo(V, k - 1), v \in V}

InitRHat ==
  /\ self = Construct(Series(MinLen, "alt"))
  /\ pc = "idle"
  /\ loc = NoLoc
  /\ ref = NoLoc
  /\ out = NoOut
  /\ calls = 0
  /\ budget = 0
  /\ coarse = TRUE
  /\ threads = NoThreads
  /\ probe \in {[fn |-> "r_hat", done |-> FALSE, samples |-> q, m |-> m, r_hat |-> NoRHat] :
                  q \in SeqsUpTo({11, 12}, MaxRHatLen), m \in 1..MaxChains}

EvalRHat ==
  /\ probe.fn = "r_hat"
  /\ ~probe.done
  /\ probe' = [probe EXCEPT !.done = TRUE, !.r_hat = CalculateRHat(probe.samples, probe.m)]
  /\ UNCHANGED <<self, pc, loc, ref, out, calls, budget, coarse, threads>>

\* ------------------------------------------- two calls on one instance
\* Two threads each make one estimator call on the same instance.  A call
\* computes on its locals and the input fields (lines 60-104, 135-176), then
\* stores its results into the instance one statement at a time and returns
\* self.map_estimate, read from the instance at the return statement.  The
\* interpreter may switch threads between any two statements; the switch
\* points taken here are those between the steps below.
Threads == {1, 2}

\* The calls a thread can make: the grid estimator at a resolution, or the
\* sampler for one iteration.
CallsOf == {[fn |-> "grid", g |-> g] : g \in 1..MaxGrid} \cup {[fn |-> "mcmc", g |-> 0]}

InitConcurrent ==
  /\ self \in {Construct(Series(len, kind)) : len \in MinLen..MaxLen, kind \in Kinds}
  /\ pc = "idle"
  /\ loc = NoLoc
  /\ ref = NoLoc
  /\ out = NoOut
  /\ calls = 0
  /\ budget = 0
  /\ coarse = TRUE
  /\ probe = NoProbe
  /\ threads \in {[t \in Threads |-> [fn |-> c[t].fn, g |-> c[t].g, at |-> "call",
                                      res |-> self, ret |-> None]] :
                    c \in [Threads -> CallsOf]}

\* The instances a sampler call of one iteration can leave on fresh fields.
OneIterationResults(s) ==
  {McmcResult(s, McmcBody(l, Decide(p, CurrentLogPost(s, l), NewLogPost(s, p), logu))) :
     <<l, p, logu>> \in {<<l0, Propose(s, l0, d), u>> :
                           l0 \in {McmcStart(s, 1, 0)}, d \in MoveDraws(McmcStart(s, 1, 0)),
                           u \in LogUDraws}}

\* Lines 60-104 or 135-176: the call computes what it is going to store.
ThreadCompute ==
  \E t \in Threads :
    /\ threads[t].at = "call"
    /\ \E res \in (IF threads[t].fn = "grid" THEN {GridResult(Fresh(self), threads[t].g)}
                   ELSE OneIterationResults(Fresh(self))) :
         threads' = [threads EXCEPT ![t].res = res,
                       ![t].at = IF threads[t].fn = "grid" THEN "map" ELSE "store"]
    /\ UNCHANGED <<self, pc, loc, ref, out, calls, budget, coarse, probe>>

\* Lines 105-111.
GridStoreMap ==
  \E t \in Threads :
    /\ threads[t].at = "map"
    /\ self' = [self EXCEPT !.map_estimate = threads[t].res.map_estimate]
    /\ threads' = [threads EXCEPT ![t].at = "tau"]
    /\ UNCHANGED <<pc, loc, ref, out, calls, budget, coarse, probe>>

\* Lines 114-115, 117-118, 120-121: one marginal is stored and normalised.
GridStoreMarginal ==
  \E t \in Threads :
    /\ threads[t].at \in {"tau", "mu1", "mu2"}
    /\ self' = IF threads[t].at = "tau"
                 THEN [self EXCEPT !.posterior_tau = threads[t].res.posterior_tau]
               ELSE IF threads[t].at = "mu1"
                 THEN [self EXCEPT !.posterior_mu1 = threads[t].res.posterior_mu1]
               ELSE [self EXCEPT !.posterior_mu2 = threads[t].res.posterior_mu2]
    /\ threads' = [threads EXCEPT ![t].at = IF threads[t].at = "tau" THEN "mu1"
                                           ELSE IF threads[t].at = "mu1" THEN "mu2"
                                           ELSE "return"]
    /\ UNCHANGED <<pc, loc, ref, out, calls, budget, coarse, probe>>

\* Lines 179-190, taken without a switch.
McmcStore ==
  \E t \in Threads :
    /\ threads[t].at = "store"
    /\ self' = [self EXCEPT !.posterior_tau = threads[t].res.posterior_tau,
                            !.posterior_mu1 = threads[t].res.posterior_mu1,
                            !.posterior_mu2 = threads[t].res.posterior_mu2,
                            !.posterior_sigma = threads[t].res.posterior_sigma,
                            !.map_estimate = threads[t].res.map_estimate]
    /\ threads' = [threads EXCEPT ![t].at = "return"]
    /\ UNCHANGED <<pc, loc, ref, out, calls, budget, coarse, probe>>

\* Line 125 or 206: return self.map_estimate.
ThreadReturn ==
  \E t \in Threads :
    /\ threads[t].at = "return"
    /\ threads' = [threads EXCEPT ![t].ret = self.map_estimate, ![t].at = "done"]
    /\ UNCHANGED <<self, pc, loc, ref, out, calls, budget, coarse, probe>>

NextConcurrent ==
  ThreadCompute \/ GridStoreMap \/ GridStoreMarginal \/ McmcStore \/ ThreadReturn

Next == GridCall \/ McmcCall \/ McmcIterate \/ McmcFinish \/ PlotResults

NextSampler == McmcCall \/ McmcIterate \/ McmcFinish \/ PlotResults

\* Any sequence of calls on one instance, the sampler drawing coarsely.
Spec == Init /\ [][Next]_vars

\* The sampler with the full draw set.
SpecSampler == InitSampler /\ [][NextSampler]_vars

\* Long sampler runs with the coarse draw set.
SpecLong == InitLong /\ [][NextSampler]_vars

\* Two concurrent calls on one instance.
SpecConcurrent == InitConcurrent /\ [][NextConcurrent]_vars

\* _log_posterior and the grid cell formula on bounded arguments.
SpecLogPost == InitLogPost /\ [][EvalLogPosterior]_vars

\* _calculate_r_hat on bounded arguments.
SpecRHat == InitRHat /\ [][EvalRHat]_vars

\* ------------------------------------------------------------- properties
\* A series the estimators are meant for: at least 21 points, not constant.
ValidInput(s) == s.n >= 21 /\ \E i, j \in 1..s.n : s.data[i] # s.data[j]

\* The valid interior range of a change point, tau in hundredths.
InInterior(s, tau) == 10 * SCALE < tau /\ tau < (s.n - 10) * SCALE

\* C1: on a valid input the MAP tau an estimator returns lies strictly between
\* 10 and n - 10 (a grid cell outside that range is never the MAP cell).
C1_MapTauInInterior ==
  (out.call \in {"grid", "mcmc"} /\ ValidInput(self) /\ IsFin(out.ret.val.tau))
    => InInterior(self, out.ret.val.tau.v)

\* The result fields an estimator leaves on the instance.
ResultsOf(s) ==
  <<s.posterior_tau, s.posterior_mu1, s.posterior_mu2, s.posterior_sigma, s.map_estimate>>

\* C2: every step of a running sampler call is one more iteration, never
\* beyond n_samples + burn_in, or the return; the call returns after exactly
\* n_samples + burn_in iterations and each of the four chains it leaves has
\* length n_samples, whatever was accepted or rejected.
C2_ChainLength ==
  [][/\ (pc = "mcmc" /\ pc' = "mcmc")
          => /\ loc'.iteration = loc.iteration + 1
             /\ loc'.iteration <= loc.n_samples + loc.burn_in
     /\ (pc = "mcmc" /\ pc' = "idle")
          => /\ loc.iteration = loc.n_samples + loc.burn_in
             /\ \A i \in 1..4 : Len(ResultsOf(self')[i].val) = loc.n_samples]_vars

C2_Witness ==
  /\ out.call = "mcmc"
  /\ Len(self.posterior_mu1.val) = MaxIter
  /\ self.posterior_mu1.val[1] # self.posterior_mu1.val[MaxIter]

\* C3: a series shorter than 21 points or constant is refused at
\* construction, so no estimator call ever completes on it.
C3_InvalidInputRefused == ~ValidInput(self) => out.call \notin {"grid", "mcmc"}

\* A proposal the sampler must not accept.
InvalidProposal(s, p) == p.tau <= 10 \/ p.tau >= s.n - 10 \/ p.sigma <= 0

\* C4: in every state of the loop, for every draw, a proposal with tau <= 10,
\* tau >= n - 10 or sigma <= 0 has log posterior -infinity, is not accepted
\* and leaves the current state as it is, whatever the current state's own
\* log posterior and the uniform draw.
C4_InvalidProposalRejected ==
  pc = "mcmc" =>
    \A d \in MoveDraws(loc) : \A logu \in LogUDraws :
      LET p == Propose(self, loc, d)
          dec == Decide(p, CurrentLogPost(self, loc), NewLogPost(self, p), logu)
      IN InvalidProposal(self, p)
           => /\ dec.new_log_post = NInf
              /\ ~dec.accepted
              /\ Moved(loc, dec) = loc

C4_Witness ==
  /\ pc = "mcmc"
  /\ loc.iteration >= 1
  /\ IsFin(CurrentLogPost(self, loc))
  /\ \E d \in MoveDraws(loc) :
       /\ Propose(self, loc, d).tau = self.n - 10
       /\ Propose(self, loc, d).sigma > 0

\* C5: a run on an instance that holds the results of earlier calls and the
\* run on a fresh instance of the same data, fed the same draws, are in the
\* same state after every iteration and leave the same chains and estimate.
C5_RunReadsNoStoredResult ==
  [][/\ pc' = "mcmc" => loc' = ref'
     /\ (pc = "mcmc" /\ pc' = "idle")
          => /\ ResultsOf(self') = ResultsOf(McmcResult(Fresh(self), ref))
             /\ out'.ret = Some(McmcMap(ref))]_vars

C5_Witness ==
  /\ pc = "mcmc"
  /\ self.map_estimate.set
  /\ IsFin(self.map_estimate.val.mu1)
  /\ self.map_estimate.val.mu1.v # loc.current_mu1
  /\ loc.iteration >= 1

\* C6: the value the grid estimator holds for a cell is the value
\* _log_posterior returns for the cell's arguments, on every cell.
C6_GridCellIsLogPosterior ==
  (probe.fn = "log_posterior" /\ probe.done /\ probe.arg.cell)
    => probe.cell_value = probe.log_post

\* C7: _log_posterior is -infinity for every tau below 0.2 n or above 0.8 n.
C7_TauPriorSupport ==
  (probe.fn = "log_posterior" /\ probe.done
     /\ (probe.arg.tau * 5 < self.n * SCALE \/ probe.arg.tau * 5 > 4 * self.n * SCALE))
    => probe.log_post = NInf

\* C8: _calculate_r_hat(samples, m) returns the literal 1.0 exactly when
\* len(samples) < 2 m, and otherwise the statistic of the m sub-chains.
C8_RHatSentinel ==
  (probe.fn = "r_hat" /\ probe.done)
    => /\ probe.r_hat.sentinel <=> Len(probe.samples) < 2 * probe.m
       /\ probe.r_hat.sentinel => probe.r_hat = RHatSentinel
       /\ ~probe.r_hat.sentinel => probe.r_hat = RHatValue(probe.samples, probe.m)

C8_Witness ==
  /\ probe.fn = "r_hat"
  /\ probe.done
  /\ probe.m = n_chains
  /\ Len(probe.samples) = 2 * n_chains
  /\ ~probe.r_hat.sentinel

\* C9: a sampler call that returns on a valid input, with a chain long enough
\* for the statistic, returns a finite estimate and finite R-hat values.
C9_ResultsFinite ==
  (out.call = "mcmc" /\ out.raised = "none" /\ ValidInput(self) /\ self.n > 21
     /\ Len(self.posterior_tau.val) >= 2 * n_chains)
    => /\ IsFin(out.ret.val.tau) /\ IsFin(out.ret.val.mu1)
       /\ IsFin(out.ret.val.mu2) /\ IsFin(out.ret.val.sigma)
       /\ out.r_hat_tau.k = "fin" /\ out.r_hat_mu1.k = "fin" /\ out.r_hat_mu2.k = "fin"

\* C10: when the estimate's mu1 is 0 or the data before the change point has
\* standard deviation 0, deriving the summary ends in DegenerateResultError.
C10_DegenerateResultRaises ==
  (out.call = "plot" /\ ValidInput(self) /\ out.summary.set
     /\ (self.map_estimate.val.mu1 = Fin(0) \/ out.summary.before_std = Fin(0)))
    => out.raised = "DegenerateResultError"

\* A properly normalised marginal array: g entries, none of them nan (an
\* entry that is not nan is exp(lw) over the sum of the exp(lw'), or 0.0, so
\* the entries are finite, non-negative and sum to 1).
ProperMarginal(field, g) ==
  /\ field.set
  /\ Len(field.val) = g
  /\ \A i \in 1..g : field.val[i].k \in {"pos", "zero"}

\* C11: after calculate_posterior_grid on a valid input, each of the three
\* marginal arrays has G finite non-negative entries that sum to 1.
C11_MarginalsNormalised ==
  (out.call = "grid" /\ ValidInput(self))
    => /\ ProperMarginal(self.posterior_tau, Len(self.posterior_tau.val))
       /\ ProperMarginal(self.posterior_mu1, Len(self.posterior_tau.val))
       /\ ProperMarginal(self.posterior_mu2, Len(self.posterior_tau.val))

\* The instance after the call of thread t has run alone on instance s.
AfterCall(t, s) ==
  IF threads[t].fn = "grid"
    THEN [s EXCEPT !.map_estimate = threads[t].res.map_estimate,
                   !.posterior_tau = threads[t].res.posterior_tau,
                   !.posterior_mu1 = threads[t].res.posterior_mu1,
                   !.posterior_mu2 = threads[t].res.posterior_mu2]
    ELSE threads[t].res

\* C12: when two concurrent calls have both returned, each has returned the
\* estimate it computed, and the instance is as one of the two serial orders
\* of the calls leaves it.
C12_CallsDoNotInterfere ==
  (threads # NoThreads /\ \A t \in Threads : threads[t].at = "done")
    => /\ \A t \in Threads : threads[t].ret = threads[t].res.map_estimate
       /\ \/ self = AfterCall(2, AfterCall(1, Fresh(self)))
          \/ self = AfterCall(1, AfterCall(2, Fresh(self)))

\* The four parameters of the sampler's current state.
CurrentOf(l) == <<l.current_tau, l.current_mu1, l.current_mu2, l.current_sigma>>

\* The four chains.
ChainsOf(l) == <<l.tau_samples, l.mu1_samples, l.mu2_samples, l.sigma_samples>>

\* C13: an iteration before burn_in records nothing; iteration burn_in + k
\* appends, as element k of each chain, the current state as it is after that
\* iteration's accept/reject step; and that state is either the previous
\* current state (all four parameters) or a proposal (all four parameters).
C13_RecordingOrder ==
  [][(pc = "mcmc" /\ pc' = "mcmc") =>
       /\ \/ CurrentOf(loc') = CurrentOf(loc)
          \/ \E d \in MoveDraws(loc) :
               LET p == Propose(self, loc, d)
               IN CurrentOf(loc') = <<p.tau, p.mu1, p.mu2, p.sigma>>
       /\ loc.iteration < loc.burn_in => ChainsOf(loc') = ChainsOf(loc)
       /\ loc.iteration >= loc.burn_in =>
            \A i \in 1..4 :
              /\ ChainsOf(loc')[i] = Append(ChainsOf(loc)[i], CurrentOf(loc')[i])
              /\ Len(ChainsOf(loc')[i]) = loc.iteration - loc.burn_in + 1]_vars

C13_Witness ==
  /\ pc = "mcmc"
  /\ loc.burn_in = 1
  /\ loc.iteration = 2
  /\ ChainsOf(loc) = <<<<loc.current_tau>>, <<loc.current_mu1>>,
                       <<loc.current_mu2>>, <<loc.current_sigma>>>>
  /\ CurrentOf(loc) # CurrentOf(McmcStart(self, 1, 1))

\* C14: on a valid input every recorded state has 10 < tau < n - 10 and
\* sigma > 0.
C14_RecordedStatesValid ==
  (pc = "mcmc" /\ ValidInput(self))
    => \A i \in 1..Len(loc.tau_samples) :
         /\ 10 < loc.tau_samples[i]
         /\ loc.tau_samples[i] < self.n - 10
         /\ loc.sigma_samples[i] > 0

\* The quantities of the R-hat formula, from their definitions, for the m
\* contiguous sub-chains of length L that start at the first sample.  With
\* mean_c and var_c the mean and the (population) variance of sub-chain c:
\* Dev2(samples, c, L) = L^3 var_c, so WScaled = m L^3 W, and
\* BScaled = m^3 L B for B = L * variance of the mean_c.
SubChain(samples, c, L) == [i \in 1..L |-> samples[c * L + i]]

Dev2(samples, c, L) ==
  LET x == SubChain(samples, c, L)
      sum == SumSeq(x)
  IN SumSeq([i \in 1..L |-> (L * x[i] - sum) * (L * x[i] - sum)])

WScaled(samples, m, L) == SumSeq([c \in 1..m |-> Dev2(samples, c - 1, L)])

BScaled(samples, m, L) ==
  LET sums == [c \in 1..m |-> SumSeq(SubChain(samples, c - 1, L))]
  IN SumSeq([c \in 1..m |-> (m * sums[c] - SumSeq(sums)) * (m * sums[c] - SumSeq(sums))])

\* C15: past the sentinel, _calculate_r_hat ignores the samples after the
\* first m L (L = len \div m), and the value r it returns satisfies
\* r^2 W L = (L - 1) W + B whenever W > 0, W and B taken over the m
\* contiguous sub-chains of length L in sampling order.
C15_RHatFormula ==
  (probe.fn = "r_hat" /\ probe.done /\ Len(probe.samples) >= 2 * probe.m)
    => LET m == probe.m
           L == Len(probe.samples) \div m
           W == m * m * WScaled(probe.samples, m, L)
           B == L * L * BScaled(probe.samples, m, L)
       IN /\ probe.r_hat = CalculateRHat(SubSeq(probe.samples, 1, m * L), m)
          /\ W > 0 => /\ probe.r_hat.k = "fin"
                      /\ probe.r_hat.num * W * L = probe.r_hat.den * ((L - 1) * W + B)

C15_Witness ==
  /\ probe.fn = "r_hat"
  /\ probe.done
  /\ Len(probe.samples) >= 2 * probe.m
  /\ Len(probe.samples) % probe.m # 0
  /\ probe.r_hat.den > 0
  /\ probe.samples[Len(probe.samples)] # probe.samples[1]

\* C16: once a grid call on a valid input is the latest estimator call to
\* have returned, no result field holds the samples an earlier sampler call
\* stored (posterior_sigma is the one field the sampler stores that has no
\* grid marginal).
C16_NoStaleResultField ==
  (out.call = "grid" /\ pc = "idle" /\ ValidInput(self))
    => ~(self.posterior_sigma.set /\ Len(self.posterior_sigma.val) > 0)

====
